---------------------------- MODULE Spec2Model ----------------------------
(***************************************************************************)
(* Tag picker custom element (fanpay/tag-picker).                          *)
(*                                                                         *)
(* Strings are sequences of atoms (an atom is an indivisible chunk of      *)
(* characters), so that JSON text can be produced and parsed for real.     *)
(* JavaScript values are tagged records [t |-> ..., v |-> ...].            *)
(* The object graph built by createTagTree and fetchTags is kept as an     *)
(* arena: nodes are addressed by codename, children are codename lists.    *)
(***************************************************************************)
EXTENDS Naturals, Sequences, FiniteSets, TLC

\* ------------------------------------------------------------------ bounds
\* The longest raw saved text made of arbitrary atoms, and the longest
\* array of a generated JSON value.
MaxRawLen == 2
MaxItems == 2
\* The longest parent list of a generated tag, and the longest selection
\* that is serialized.
MaxParents == 2
MaxSelection == 2

\* ----------------------------------------------------------------- strings
NameSeq == << <<"a">>, <<"b">>, <<"c">>, <<"d">>, <<"e">>, <<"f">> >>

Min(x, y) == IF x < y THEN x ELSE y

\* The codenames of the generated tags.
Names == {NameSeq[1], NameSeq[2], NameSeq[3]}

Range(s) == {s[i] : i \in DOMAIN s}

\* JavaScript truthiness of a string: the empty string is falsy.
Truthy(s) == s # <<>>

\* --------------------------------------------------------------------- Tag
\* system.id, system.name, system.codename, elements.name.value and
\* elements.parent_tag?.value || []
Tag(c, n, e, i, ps) ==
    [codename |-> c, name |-> n, elname |-> e, id |-> i, parents |-> ps]

Codenames(tags) == [i \in DOMAIN tags |-> tags[i].codename]

UniqueCodenames(tags) ==
    \A i, j \in DOMAIN tags : tags[i].codename = tags[j].codename => i = j

\* ------------------------------------------------------------ createTagTree
\* Initialize nodes: tagMap.set(codename, {...tag, children: [], level: 0,
\* isRoot: true}); a later tag with the same codename replaces the entry.
LastIndexOf(tags, c) ==
    CHOOSE i \in DOMAIN tags :
        /\ tags[i].codename = c
        /\ \A j \in DOMAIN tags : tags[j].codename = c => j <= i

InitNodes(tags) ==
    [c \in Range(Codenames(tags)) |->
        [tag |-> tags[LastIndexOf(tags, c)], children |-> <<>>,
         level |-> 0, isRoot |-> TRUE]]

\* find that scans the parent list from its end.
FindParent_LastResolvable(parents, keys) ==
    IF \E k \in DOMAIN parents : parents[k] \in keys
    THEN parents[CHOOSE k \in DOMAIN parents :
                    /\ parents[k] \in keys
                    /\ \A m \in DOMAIN parents : parents[m] \in keys => m <= k]
    ELSE <<>>

\* find that looks at the first entry of the parent list only.
FindParent_FirstOnly(parents, keys) ==
    IF parents # <<>> /\ parents[1] \in keys THEN parents[1] ELSE <<>>

\* parents.find(p => tagMap.has(p)): the first entry that is a key of the
\* map, or undefined (modelled as the empty string, which is falsy as well).
FindParent(parents, keys) ==
    IF \E k \in DOMAIN parents : parents[k] \in keys
    THEN parents[CHOOSE k \in DOMAIN parents :
                    /\ parents[k] \in keys
                    /\ \A m \in DOMAIN parents : parents[m] \in keys => k <= m]
    ELSE <<>>

\* The iteration that pushes the node to the root list in every case.
AttachTag_AlsoRoot(st, tag) ==
    LET c == tag.codename
        parentCodename == FindParent(tag.parents, DOMAIN st.tagMap)
        roots == Append(st.rootTags, c)
    IN  IF Len(tag.parents) > 0 /\ Truthy(parentCodename)
        THEN LET m1 == [st.tagMap EXCEPT
                           ![parentCodename].children = Append(@, c)]
                 m2 == [m1 EXCEPT ![c].level = m1[parentCodename].level + 1,
                                  ![c].isRoot = FALSE]
             IN  [tagMap |-> m2, rootTags |-> roots]
        ELSE [st EXCEPT !.rootTags = roots]

\* One iteration of the "Build hierarchy" forEach.
AttachTag(st, tag) ==
    LET c == tag.codename
        parentCodename == FindParent(tag.parents, DOMAIN st.tagMap)
    IN  IF Len(tag.parents) = 0
        THEN [st EXCEPT !.rootTags = Append(@, c)]
        ELSE IF Truthy(parentCodename)
             THEN LET m1 == [st.tagMap EXCEPT
                                ![parentCodename].children = Append(@, c)]
                      m2 == [m1 EXCEPT ![c].level = m1[parentCodename].level + 1,
                                       ![c].isRoot = FALSE]
                  IN  [st EXCEPT !.tagMap = m2]
             ELSE [st EXCEPT !.rootTags = Append(@, c)]

RECURSIVE BuildHierarchy(_, _, _)
BuildHierarchy(tags, i, st) ==
    IF i > Len(tags) THEN st
    ELSE BuildHierarchy(tags, i + 1, AttachTag(st, tags[i]))

\* The result: the root list and the nodes it refers to.
createTagTree(tags) ==
    BuildHierarchy(tags, 1, [tagMap |-> InitNodes(tags), rootTags |-> <<>>])

\* -------------------------------------------------------------- flattenTree
\* A TreeTag as it is seen in the flattened list.
TreeTag(tree, c) ==
    [tag |-> tree.tagMap[c].tag, level |-> tree.tagMap[c].level,
     isRoot |-> tree.tagMap[c].isRoot]

\* flatten(node): result.push(node); node.children.forEach(flatten).
\* A node met again on the current call path means unbounded recursion,
\* which ends in a RangeError: the result is then [ok |-> FALSE].
RECURSIVE FlattenNode(_, _, _)
RECURSIVE FlattenList(_, _, _, _)
\* flatten that pushes the node after its children.
FlattenNode_PostOrder(tree, c, path) ==
    IF c \in path THEN [ok |-> FALSE, out |-> <<>>]
    ELSE LET sub == FlattenList(tree, tree.tagMap[c].children, 1, path \cup {c})
         IN  [ok |-> sub.ok, out |-> sub.out \o <<TreeTag(tree, c)>>]

FlattenNode(tree, c, path) ==
    IF c \in path THEN [ok |-> FALSE, out |-> <<>>]
    ELSE LET sub == FlattenList(tree, tree.tagMap[c].children, 1, path \cup {c})
         IN  [ok |-> sub.ok, out |-> <<TreeTag(tree, c)>> \o sub.out]

FlattenList(tree, cs, i, path) ==
    IF i > Len(cs) THEN [ok |-> TRUE, out |-> <<>>]
    ELSE LET head == FlattenNode(tree, cs[i], path)
         IN  IF ~head.ok THEN head
             ELSE LET rest == FlattenList(tree, cs, i + 1, path)
                  IN  [ok |-> rest.ok, out |-> head.out \o rest.out]

flattenTree(tree) == FlattenList(tree, tree.rootTags, 1, {})


\* -------------------------------------------------------- JavaScript values
JStr(s) == [t |-> "str", v |-> s]
JNum(s) == [t |-> "num", v |-> s]
JBool(b) == [t |-> "bool", v |-> IF b THEN <<"true">> ELSE <<"false">>]
JNull == [t |-> "null", v |-> <<>>]
JUndef == [t |-> "undef", v |-> <<>>]
JArr(xs) == [t |-> "arr", v |-> xs]
\* An object is its property list, [k |-> key, val |-> value] in insertion order.
JObj(ps) == [t |-> "obj", v |-> ps]
Prop(k, x) == [k |-> k, val |-> x]

\* typeof x === 'object'
TypeofObject(x) == x.t \in {"obj", "arr", "null"}

\* Boolean(x)
JTruthy(x) ==
    CASE x.t \in {"undef", "null"} -> FALSE
      [] x.t = "str" -> x.v # <<>>
      [] x.t = "num" -> x.v # <<"0">>
      [] x.t = "bool" -> x.v = <<"true">>
      [] OTHER -> TRUE

\* x[key] for a string key: [ok |-> FALSE] is the TypeError of reading a
\* property of null or undefined; a missing property reads as undefined.
GetProp(x, key) ==
    CASE x.t \in {"undef", "null"} -> [ok |-> FALSE, val |-> JUndef]
      [] x.t = "obj" ->
            IF \E i \in DOMAIN x.v : x.v[i].k = key
            THEN [ok |-> TRUE,
                  val |-> x.v[CHOOSE i \in DOMAIN x.v :
                                /\ x.v[i].k = key
                                /\ \A j \in DOMAIN x.v : x.v[j].k = key => j <= i].val]
            ELSE [ok |-> TRUE, val |-> JUndef]
      [] OTHER -> [ok |-> TRUE, val |-> JUndef]

\* ----------------------------------------------------------- JSON.stringify
QUOTE == "\""
BACKSLASH == "\\"

RECURSIVE Escape(_)
Escape(s) ==
    IF s = <<>> THEN <<>>
    ELSE (IF Head(s) \in {QUOTE, BACKSLASH} THEN <<BACKSLASH, Head(s)>>
          ELSE <<Head(s)>>) \o Escape(Tail(s))

Quoted(s) == <<QUOTE>> \o Escape(s) \o <<QUOTE>>

RECURSIVE JSONstringify(_)
RECURSIVE StringifyItems(_, _)
RECURSIVE StringifyProps(_, _)
JSONstringify(x) ==
    CASE x.t = "str" -> Quoted(x.v)
      [] x.t \in {"num", "bool"} -> x.v
      [] x.t = "arr" -> <<"[">> \o StringifyItems(x.v, 1) \o <<"]">>
      [] x.t = "obj" -> <<"{">> \o StringifyProps(x.v, TRUE) \o <<"}">>
      [] OTHER -> <<"null">>

StringifyItems(xs, i) ==
    IF i > Len(xs) THEN <<>>
    ELSE (IF i > 1 THEN <<",">> ELSE <<>>)
            \o JSONstringify(xs[i]) \o StringifyItems(xs, i + 1)

\* A property whose value is undefined is left out.
StringifyProps(ps, first) ==
    IF ps = <<>> THEN <<>>
    ELSE IF Head(ps).val.t = "undef" THEN StringifyProps(Tail(ps), first)
    ELSE (IF first THEN <<>> ELSE <<",">>)
            \o Quoted(Head(ps).k) \o <<":">> \o JSONstringify(Head(ps).val)
            \o StringifyProps(Tail(ps), FALSE)

\* --------------------------------------------------------------- JSON.parse
Digits == {"0", "1", "2", "3", "4", "5", "6", "7", "8", "9"}
Fail == [ok |-> FALSE, val |-> JUndef, pos |-> 0]
Parsed(x, p) == [ok |-> TRUE, val |-> x, pos |-> p]

RECURSIVE SkipWs(_, _)
SkipWs(txt, p) ==
    IF p <= Len(txt) /\ txt[p] = " " THEN SkipWs(txt, p + 1) ELSE p

\* The characters of a string literal, from p (after the opening quote) to
\* the closing quote.
RECURSIVE ParseChars(_, _, _)
ParseChars(txt, p, acc) ==
    IF p > Len(txt) THEN Fail
    ELSE IF txt[p] = QUOTE THEN Parsed(JStr(acc), p + 1)
    ELSE IF txt[p] = BACKSLASH
         THEN IF p + 1 <= Len(txt) /\ txt[p + 1] \in {QUOTE, BACKSLASH}
              THEN ParseChars(txt, p + 2, Append(acc, txt[p + 1]))
              ELSE Fail
    ELSE ParseChars(txt, p + 1, Append(acc, txt[p]))

RECURSIVE ParseDigits(_, _, _)
ParseDigits(txt, p, acc) ==
    IF p <= Len(txt) /\ txt[p] \in Digits
    THEN ParseDigits(txt, p + 1, Append(acc, txt[p]))
    ELSE Parsed(JNum(acc), p)

RECURSIVE ParseValue(_, _)
RECURSIVE ParseItems(_, _, _)
RECURSIVE ParseMembers(_, _, _)
ParseValue(txt, p0) ==
    LET p == SkipWs(txt, p0)
    IN  IF p > Len(txt) THEN Fail
        ELSE CASE txt[p] = QUOTE -> ParseChars(txt, p + 1, <<>>)
               [] txt[p] = "null" -> Parsed(JNull, p + 1)
               [] txt[p] = "true" -> Parsed(JBool(TRUE), p + 1)
               [] txt[p] = "false" -> Parsed(JBool(FALSE), p + 1)
               [] txt[p] \in Digits ->
                    IF txt[p] = "0" /\ p + 1 <= Len(txt) /\ txt[p + 1] \in Digits
                    THEN Fail
                    ELSE ParseDigits(txt, p, <<>>)
               [] txt[p] = "[" ->
                    LET q == SkipWs(txt, p + 1)
                    IN  IF q <= Len(txt) /\ txt[q] = "]"
                        THEN Parsed(JArr(<<>>), q + 1)
                        ELSE ParseItems(txt, q, <<>>)
               [] txt[p] = "{" ->
                    LET q == SkipWs(txt, p + 1)
                    IN  IF q <= Len(txt) /\ txt[q] = "}"
                        THEN Parsed(JObj(<<>>), q + 1)
                        ELSE ParseMembers(txt, q, <<>>)
               [] OTHER -> Fail

\* value ("," value)* "]"
ParseItems(txt, p, acc) ==
    LET r == ParseValue(txt, p)
    IN  IF ~r.ok THEN Fail
        ELSE LET q == SkipWs(txt, r.pos)
             IN  IF q > Len(txt) THEN Fail
                 ELSE IF txt[q] = "]" THEN Parsed(JArr(Append(acc, r.val)), q + 1)
                 ELSE IF txt[q] = "," THEN ParseItems(txt, q + 1, Append(acc, r.val))
                 ELSE Fail

\* string ":" value ("," string ":" value)* "}"
ParseMembers(txt, p0, acc) ==
    LET p == SkipWs(txt, p0)
    IN  IF p > Len(txt) \/ txt[p] # QUOTE THEN Fail
        ELSE LET k == ParseChars(txt, p + 1, <<>>)
             IN  IF ~k.ok THEN Fail
                 ELSE LET c == SkipWs(txt, k.pos)
                      IN  IF c > Len(txt) \/ txt[c] # ":" THEN Fail
                          ELSE LET r == ParseValue(txt, c + 1)
                               IN  IF ~r.ok THEN Fail
                                   ELSE LET q == SkipWs(txt, r.pos)
                                            ps == Append(acc, Prop(k.val.v, r.val))
                                        IN  IF q > Len(txt) THEN Fail
                                            ELSE IF txt[q] = "}"
                                                 THEN Parsed(JObj(ps), q + 1)
                                            ELSE IF txt[q] = ","
                                                 THEN ParseMembers(txt, q + 1, ps)
                                            ELSE Fail

\* JSON.parse(text): [ok |-> FALSE] is the SyntaxError.
JSONparse(txt) ==
    LET r == ParseValue(txt, 1)
    IN  IF r.ok /\ SkipWs(txt, r.pos) > Len(txt)
        THEN [ok |-> TRUE, val |-> r.val]
        ELSE [ok |-> FALSE, val |-> JUndef]

\* -------------------------------------------------------- parseInitialValue
\* parsed.map(tag => tag.codename); ok is FALSE when a read throws.
RECURSIVE MapCodename(_)
MapCodename(xs) ==
    IF xs = <<>> THEN [ok |-> TRUE, out |-> <<>>]
    ELSE LET g == GetProp(Head(xs), <<"codename">>)
             rest == MapCodename(Tail(xs))
         IN  IF g.ok /\ rest.ok
             THEN [ok |-> TRUE, out |-> <<g.val>> \o rest.out]
             ELSE [ok |-> FALSE, out |-> <<>>]

\* parseInitialValue without the map to the codename field.
parseInitialValue_NoMap(value) ==
    LET r == JSONparse(value)
    IN  IF ~r.ok THEN <<JStr(value)>>
        ELSE IF r.val.t = "arr" THEN r.val.v ELSE <<>>

\* parseInitialValue whose catch returns the empty array.
parseInitialValue_CatchEmpty(value) ==
    LET r == JSONparse(value)
    IN  IF ~r.ok THEN <<>>
        ELSE IF r.val.t = "arr"
        THEN LET parsed == r.val.v
             IN  IF Len(parsed) > 0 /\ TypeofObject(parsed[1])
                 THEN LET first == GetProp(parsed[1], <<"codename">>)
                      IN  IF ~first.ok THEN <<>>
                          ELSE IF JTruthy(first.val)
                          THEN LET m == MapCodename(parsed)
                               IN  IF m.ok THEN m.out ELSE <<>>
                          ELSE parsed
                 ELSE parsed
        ELSE <<>>

\* The result is a JavaScript array, given as the sequence of its elements.
\* Everything the try block throws lands in the catch, which returns [value].
parseInitialValue(value) ==
    LET r == JSONparse(value)
        caught == <<JStr(value)>>
    IN  IF ~r.ok THEN caught
        ELSE IF r.val.t = "arr"
        THEN LET parsed == r.val.v
             IN  IF Len(parsed) > 0 /\ TypeofObject(parsed[1])
                 THEN LET first == GetProp(parsed[1], <<"codename">>)
                      IN  IF ~first.ok THEN caught
                          ELSE IF JTruthy(first.val)
                          THEN LET m == MapCodename(parsed)
                               IN  IF m.ok THEN m.out ELSE caught
                          ELSE parsed
                 ELSE parsed
        ELSE <<>>

\* ------------------------------------------------------ formatTagsForSaving
StrArr(ss) == JArr([i \in DOMAIN ss |-> JStr(ss[i])])

SavedTagInfo(tag) ==
    JObj(<< Prop(<<"codename">>, JStr(tag.codename)),
            Prop(<<"name">>, JStr(tag.name)),
            Prop(<<"displayName">>,
                 JStr(IF Truthy(tag.elname) THEN tag.elname ELSE tag.name)),
            Prop(<<"id">>, JStr(tag.id)),
            Prop(<<"parentTags">>, StrArr(tag.parents)) >>)

formatTagsForSaving(tags) == JArr([i \in DOMAIN tags |-> SavedTagInfo(tags[i])])

\* ---------------------------------------------------------------- fetchTags
\* "Build hierarchy" of the parent filter: the tag is pushed to the children
\* of EVERY entry of its parent list that is a key of the map.
RECURSIVE AddTagToParents(_, _, _, _)
AddTagToParents(children, c, parents, k) ==
    IF k > Len(parents) THEN children
    ELSE AddTagToParents(
            IF parents[k] \in DOMAIN children
            THEN [children EXCEPT ![parents[k]] = Append(@, c)]
            ELSE children,
            c, parents, k + 1)

RECURSIVE BuildTagHierarchy(_, _, _)
BuildTagHierarchy(tags, i, children) ==
    IF i > Len(tags) THEN children
    ELSE BuildTagHierarchy(tags, i + 1,
            AddTagToParents(children, tags[i].codename, tags[i].parents, 1))

\* getDescendants(node): [node, ...getDescendants(child) for each child].
\* A node met again on the current call path means unbounded recursion,
\* which ends in a RangeError: the result is then [ok |-> FALSE].
RECURSIVE getDescendants(_, _, _, _)
RECURSIVE DescendantsOfList(_, _, _, _, _)
getDescendants(nodes, children, c, path) ==
    IF c \in path THEN [ok |-> FALSE, out |-> <<>>]
    ELSE LET sub == DescendantsOfList(nodes, children, children[c], 1, path \cup {c})
         IN  [ok |-> sub.ok, out |-> <<nodes[c]>> \o sub.out]

DescendantsOfList(nodes, children, cs, i, path) ==
    IF i > Len(cs) THEN [ok |-> TRUE, out |-> <<>>]
    ELSE LET head == getDescendants(nodes, children, cs[i], path)
         IN  IF ~head.ok THEN head
             ELSE LET rest == DescendantsOfList(nodes, children, cs, i + 1, path)
                  IN  [ok |-> rest.ok, out |-> head.out \o rest.out]

\* The body of the "if (parentFilter)" branch; ok is FALSE when it throws.
FilterByParent(allTags, parentFilter) ==
    LET keys == Range(Codenames(allTags))
        nodes == [c \in keys |-> allTags[LastIndexOf(allTags, c)]]
        children == BuildTagHierarchy(allTags, 1, [c \in keys |-> <<>>])
    IN  IF parentFilter \in keys
        THEN getDescendants(nodes, children, parentFilter, {})
        ELSE [ok |-> TRUE, out |-> <<>>]

\* A response of the Delivery API: [ok |-> FALSE] when the request throws or
\* rejects, otherwise the items of response.data.items.
Response(items) == [ok |-> TRUE, items |-> items]
Rejected == [ok |-> FALSE, items |-> <<>>]

\* How an async function ends: resolved with a value or rejected, and
\* whether it wrote to console.error.
Resolved(x) == [rejected |-> FALSE, value |-> x, error |-> FALSE]
\* The catch of fetchTags and fetchSpecificTags: console.error, return [].
Caught == [rejected |-> FALSE, value |-> <<>>, error |-> TRUE]

\* fetchTags without its try and catch: a failed request rejects the promise.
fetchTags_NoCatch(response, parentFilter) ==
    IF ~response.ok THEN [rejected |-> TRUE, value |-> <<>>, error |-> FALSE]
    ELSE IF Truthy(parentFilter)
         THEN LET r == FilterByParent(response.items, parentFilter)
              IN  IF r.ok THEN Resolved(r.out)
                  ELSE [rejected |-> TRUE, value |-> <<>>, error |-> FALSE]
         ELSE Resolved(response.items)

\* fetchTags(projectId, languageCode, parentFilter) once the request has
\* settled. parentFilter is the empty string when it was not given. The
\* whole body is inside try.
fetchTags(response, parentFilter) ==
    IF ~response.ok THEN Caught
    ELSE IF Truthy(parentFilter)
         THEN LET r == FilterByParent(response.items, parentFilter)
              IN  IF r.ok THEN Resolved(r.out) ELSE Caught
         ELSE Resolved(response.items)

\* fetchSpecificTags once the request has settled: the items found.
fetchSpecificTags(response, tagCodenames) ==
    IF ~response.ok THEN Caught ELSE Resolved(response.items)

\* ----------------------------------------------------------- getDisplayName
RECURSIVE TrimStart(_)
TrimStart(s) == IF s # <<>> /\ Head(s) = " " THEN TrimStart(Tail(s)) ELSE s

RECURSIVE TrimEnd(_)
TrimEnd(s) ==
    IF s # <<>> /\ s[Len(s)] = " " THEN TrimEnd(SubSeq(s, 1, Len(s) - 1)) ELSE s

\* String.prototype.trim
Trim(s) == TrimEnd(TrimStart(s))

getDisplayName(tag) ==
    LET elementName == tag.elname
        systemName == tag.name
    IN  IF Truthy(elementName) /\ Trim(elementName) # Trim(systemName)
        THEN systemName \o <<" ", "-", " ">> \o elementName
        ELSE IF Truthy(elementName) THEN elementName ELSE systemName

\* String.prototype.toLowerCase, on the letters the model uses.
LowerAtom(ch) ==
    CASE ch = "A" -> "a" [] ch = "B" -> "b" [] ch = "C" -> "c"
      [] ch = "X" -> "x" [] OTHER -> ch

ToLowerCase(s) == [i \in DOMAIN s |-> LowerAtom(s[i])]

\* String.prototype.includes
Includes(s, sub) ==
    \E k \in 0..(Len(s) - Len(sub)) : SubSeq(s, k + 1, k + Len(sub)) = sub

\* ------------------------------------------------ parseSpecificTagCodenames
\* String.prototype.split(','): the pieces between the commas.
RECURSIVE Split(_, _)
Split(s, piece) ==
    IF s = <<>> THEN <<piece>>
    ELSE IF Head(s) = "," THEN <<piece>> \o Split(Tail(s), <<>>)
    ELSE Split(Tail(s), Append(piece, Head(s)))

\* The argument is a JavaScript value: undefined, or a string.
parseSpecificTagCodenames(specificTagCodenames) ==
    IF ~JTruthy(specificTagCodenames) \/ specificTagCodenames.t # "str"
    THEN <<>>
    ELSE LET pieces == Split(specificTagCodenames.v, <<>>)
             trimmed == [k \in DOMAIN pieces |-> Trim(pieces[k])]
             NotEmpty(codename) == Len(codename) > 0
         IN  SelectSeq(trimmed, NotEmpty)

\* --------------------------------------------------- determineTagPickerMode
\* config is undefined, or an object with the two optional properties.
NoConfig == JUndef

Config(specific, parent) ==
    JObj(<<Prop(<<"specificTagCodenames">>, specific),
           Prop(<<"parentTagCodename">>, parent)>>)

\* config?.key
OptionalProp(config, key) ==
    IF config.t \in {"undef", "null"} THEN JUndef ELSE GetProp(config, key).val

determineTagPickerMode(config) ==
    IF JTruthy(OptionalProp(config, <<"specificTagCodenames">>))
    THEN "specific-tags"
    ELSE IF JTruthy(OptionalProp(config, <<"parentTagCodename">>))
    THEN "parent-filtered"
    ELSE "all-tags"

\* ------------------------------------------------------- memoized view data
\* availableTags that compares the tag objects instead of their codenames.
AvailableTags_ByIdentity(all, selected) ==
    LET NotSelected(tag) == ~\E k \in DOMAIN selected : selected[k] = tag
    IN  SelectSeq(all, NotSelected)

\* availableTags: the tags of allTags with no selected tag of that codename.
AvailableTags(all, selected) ==
    LET NotSelected(tag) ==
            ~\E k \in DOMAIN selected : selected[k].codename = tag.codename
    IN  SelectSeq(all, NotSelected)

\* filteredTags: search on the display name, case-insensitive.
FilteredTags(available, input) ==
    LET Matches(tag) ==
            Includes(ToLowerCase(getDisplayName(tag)), ToLowerCase(input))
    IN  IF ~Truthy(Trim(input)) THEN available
        ELSE SelectSeq(available, Matches)

\* flattenedTags: flattenTree(createTagTree(filteredTags)).
FlattenedTags(all, selected, input) ==
    flattenTree(createTagTree(FilteredTags(AvailableTags(all, selected), input)))

\* ------------------------------------------------------------------- state
VARIABLES
    env,               \* what the host and the Delivery API hold for the session
    phase,             \* Unmounted, Inert, Uninitialized, Loading, Ready
    disabled, allTags, selectedTags, languageCodename, inputValue,
    initialCodenames,  \* useState of App
    parentTagCodename, \* useState of src/app/src/App.tsx only
    isOpen,            \* useCombobox: the menu is open
    pendingInit,       \* init callbacks the host has still to deliver
    inflight,          \* requests in flight: the parent filter of the call,
                       \* and whether the request will succeed
    subscribed,        \* number of onDisabledChanged subscriptions
    heightPending,     \* the 100 ms timer of the height effect is armed
    initCalls, fetchCalls, errors,
    hostValue,         \* the value the host holds for the element
    seeded,            \* history: the reconcile effect has set the selection
    calls,             \* the host calls made by the last step
    fn, arg, res       \* a pure function applied to an argument, and its result

reactVars == <<disabled, allTags, selectedTags, languageCodename, inputValue,
               initialCodenames, parentTagCodename, isOpen>>
appVars == <<env, phase, reactVars, pendingInit, inflight, subscribed,
             heightPending, initCalls, fetchCalls, errors, hostValue, seeded,
             calls>>
pureVars == <<fn, arg, res>>
vars == <<appVars, seeded, pureVars>>

\* ------------------------------------------------------- the session's data
A == NameSeq[1]
B == NameSeq[2]
C == NameSeq[3]
Z == <<"z">>

\* A tag of the remote content type: codename, system name, name element,
\* parent_tag element; the id is derived from the codename.
MkTag(c, n, e, ps) == Tag(c, n, e, <<"#">> \o c, ps)

\* Tag lists the Delivery API may hold (codenames unique in each): none, a
\* chain, a tag with two parents listed before one of them, and two tags
\* that name each other as parent.
Universes ==
    { <<>>,
      << MkTag(A, <<"A">>, <<"A">>, <<>>),
         MkTag(B, <<"B">>, <<"X">>, <<A>>),
         MkTag(C, <<"C">>, <<>>, <<Z, B>>) >>,
      << MkTag(B, <<"B">>, <<"B", " ">>, <<A>>),
         MkTag(C, <<"C">>, <<"A", "C">>, <<A, B>>),
         MkTag(A, <<"A">>, <<"a">>, <<>>) >>,
      << MkTag(A, <<"A">>, <<"A">>, <<B>>),
         MkTag(B, <<"B">>, <<"B">>, <<A>>),
         MkTag(C, <<"C">>, <<"C">>, <<>>) >> }

\* Values the host may hold for the element when the widget starts: empty,
\* a bare codename, an array of codenames, the current format, and text that
\* is none of these.
SavedValues ==
    { <<>>,
      A,
      JSONstringify(StrArr(<<C, Z, A>>)),
      JSONstringify(formatTagsForSaving(
          << MkTag(C, <<"C">>, <<>>, <<A, B>>), MkTag(B, <<"B">>, <<"X">>, <<A>>) >>)),
      <<"{", "not", " ", "json">> }

ParentFilters == {<<>>, A, Z}
Variants == {<<"en-us">>, <<"de">>}
Queries == {<<>>, <<"a">>, <<" ">>}

\* ------------------------------------------------------------ host calls
SetValue(text) == [fn |-> "setValue", text |-> text, px |-> 0]
SetHeight(px) == [fn |-> "setHeight", text |-> <<>>, px |-> px]

\* The value the host holds after the calls of a step.
RECURSIVE HostValueAfter(_, _)
HostValueAfter(old, cs) ==
    IF cs = <<>> THEN old
    ELSE HostValueAfter(IF Head(cs).fn = "setValue" THEN Head(cs).text ELSE old,
                        Tail(cs))

Max(x, y) == IF x > y THEN x ELSE y
Ceil3(n) == (n + 2) \div 3

\* updateHeight of the height effect.
UpdateHeight(nSelected, open, nFlattened) ==
    LET baseHeight == 180
        tagRows == Ceil3(nSelected)
        tagsHeight == Max(40, tagRows * 40)
        dropdownHeight == IF open THEN Min(160, nFlattened * 44) ELSE 0
        totalHeight == baseHeight + tagsHeight + dropdownHeight
    IN  Min(totalHeight, 500)

\* ----------------------------------------------------------------- effects
\* The save effect: setValue(JSON.stringify(selectedItems.map(...))).
SaveEffect(selectedItems) ==
    SetValue(JSONstringify(formatTagsForSaving(selectedItems)))

\* initialCodenames.includes(tag.system.codename)
IncludesCodename(codenames, c) ==
    \E k \in DOMAIN codenames : codenames[k].t = "str" /\ codenames[k].v = c

\* The reconcile effect ("Initialize selected tags when tags are loaded"),
\* run with the committed allTags and initialCodenames.
ReconcileRuns(all, codenames) == Len(all) > 0 /\ Len(codenames) > 0

\* The reconcile effect that makes a tag of every saved codename, in the
\* universe or not.
InitialTags_Unmatched(all, codenames) ==
    [k \in DOMAIN codenames |-> MkTag(codenames[k].v, codenames[k].v, <<>>, <<>>)]

\* The reconcile effect taking the tags in the order of the saved codenames.
RECURSIVE InitialTags_SavedOrder(_, _)
InitialTags_SavedOrder(all, codenames) ==
    IF codenames = <<>> THEN <<>>
    ELSE LET IsHead(tag) == Head(codenames).t = "str"
                            /\ Head(codenames).v = tag.codename
         IN  SelectSeq(all, IsHead) \o InitialTags_SavedOrder(all, Tail(codenames))

InitialTags(all, codenames) ==
    LET Saved(tag) == IncludesCodename(codenames, tag.codename)
    IN  SelectSeq(all, Saved)

\* ------------------------------------------------------------------- Init
\* The state of the widget before it is mounted, in a session e; lang is
\* the initial languageCodename of the file.
AppInit(e, lang) ==
    /\ env = e
    /\ phase = "Unmounted"
    /\ disabled = TRUE
    /\ allTags = <<>>
    /\ selectedTags = <<>>
    /\ languageCodename = lang
    /\ inputValue = <<>>
    /\ initialCodenames = <<>>
    /\ parentTagCodename = <<>>
    /\ isOpen = FALSE
    /\ pendingInit = <<>>
    /\ inflight = <<>>
    /\ subscribed = 0
    /\ heightPending = FALSE
    /\ initCalls = 0
    /\ fetchCalls = 0
    /\ errors = 0
    /\ hostValue = e.value
    /\ seeded = FALSE
    /\ calls = <<>>

\* A session: is the SDK there, element.value, element.disabled,
\* element.config.parentTagCodename, context.variant.codename, and the tags
\* the Delivery API holds.
Session(s, v, d, p, l, u) ==
    [sdk |-> s, value |-> v, disabled |-> d, parentTagCodename |-> p,
     variant |-> l, items |-> u]

\* The widget of src/unnamed/part_000. The variant codename only feeds the
\* label there, so one variant stands for all.
Init ==
    /\ \E s \in BOOLEAN, v \in SavedValues, d \in BOOLEAN, p \in ParentFilters,
          u \in Universes :
         AppInit(Session(s, v, d, p, <<"de">>, u), <<"default">>)
    /\ fn = "none" /\ arg = <<>> /\ res = <<>>

\* The host calls of a step, and the value the host holds after them.
Calls(cs) ==
    /\ calls' = cs
    /\ hostValue' = HostValueAfter(hostValue, cs)

\* ---------------------------------------------------------------- actions
\* First render and the effects of the mount, in their order in the file:
\* the init effect, the reconcile effect (nothing to do), the height effect
\* (arms the timer) and the save effect.
Mount ==
    /\ phase = "Unmounted"
    /\ IF env.sdk
       THEN /\ phase' = "Uninitialized"
            /\ pendingInit' = Append(pendingInit, <<>>)
            /\ initCalls' = initCalls + 1
            /\ subscribed' = subscribed + 1
            /\ Calls(<<SaveEffect(selectedTags)>>)
            /\ UNCHANGED errors
       ELSE /\ phase' = "Inert"
            /\ errors' = errors + 1
            /\ Calls(<<>>)
            /\ UNCHANGED <<pendingInit, initCalls, subscribed>>
    /\ heightPending' = TRUE
    /\ UNCHANGED <<env, reactVars, inflight, fetchCalls, seeded, pureVars>>

\* The host delivers the callback given to init: the callback up to its
\* await, then the render of the state it set and the effects of that render.
InitCallback ==
    /\ pendingInit # <<>>
    /\ pendingInit' = Tail(pendingInit)
    /\ LET codenames == IF Truthy(env.value) THEN parseInitialValue(env.value)
                        ELSE initialCodenames
           runs == Truthy(env.value) /\ ReconcileRuns(allTags, codenames)
       IN  /\ initialCodenames' = IF runs THEN <<>> ELSE codenames
           /\ selectedTags' = IF runs THEN InitialTags(allTags, codenames)
                              ELSE selectedTags
           /\ Calls(<<SetHeight(180)>>
                    \o IF runs THEN <<SaveEffect(selectedTags')>> ELSE <<>>)
           /\ heightPending' = (heightPending \/ runs)
           /\ seeded' = (seeded \/ runs)
    /\ languageCodename' = IF Truthy(env.variant) THEN env.variant
                           ELSE languageCodename
    /\ disabled' = env.disabled
    /\ \E ok \in BOOLEAN :
         inflight' = Append(inflight, [filter |-> env.parentTagCodename, ok |-> ok])
    /\ fetchCalls' = fetchCalls + 1
    /\ phase' = IF phase = "Ready" THEN "Ready" ELSE "Loading"
    /\ UNCHANGED <<env, allTags, inputValue, parentTagCodename, isOpen,
                   subscribed, initCalls, errors, pureVars>>

\* The request settles: fetchTags returns, the callback resumes after its
\* await with setAllTags(tags), and the render and its effects follow. Were
\* the promise rejected, the callback would end at the await.
FetchSettle ==
    /\ inflight # <<>>
    /\ inflight' = Tail(inflight)
    /\ LET response == IF Head(inflight).ok THEN Response(env.items) ELSE Rejected
           tags == fetchTags(response, Head(inflight).filter)
       IN  IF tags.rejected
           THEN /\ Calls(<<>>)
                /\ UNCHANGED <<phase, allTags, selectedTags, initialCodenames,
                               heightPending, errors, seeded>>
           ELSE LET runs == ReconcileRuns(tags.value, initialCodenames)
                IN  /\ phase' = "Ready"
                    /\ seeded' = (seeded \/ runs)
                    /\ allTags' = tags.value
                    /\ selectedTags' =
                          IF runs THEN InitialTags(tags.value, initialCodenames)
                          ELSE selectedTags
                    /\ initialCodenames' = IF runs THEN <<>> ELSE initialCodenames
                    /\ Calls(IF runs THEN <<SaveEffect(selectedTags')>> ELSE <<>>)
                    /\ heightPending' = TRUE
                    /\ errors' = errors + IF tags.error THEN 1 ELSE 0
    /\ UNCHANGED <<env, disabled, languageCodename, inputValue, parentTagCodename,
                   isOpen, pendingInit, subscribed, initCalls, fetchCalls, pureVars>>

\* The host reports a change of the disabled state: setDisabled.
DisabledChanged(b) ==
    /\ subscribed > 0
    /\ disabled' = b
    /\ Calls(<<>>)
    /\ UNCHANGED <<env, phase, allTags, selectedTags, languageCodename, inputValue,
                   initialCodenames, parentTagCodename, isOpen, pendingInit,
                   inflight, subscribed, heightPending, initCalls, fetchCalls,
                   errors, seeded, pureVars>>

\* The user opens the menu from the input, which is disabled with the widget.
OpenMenu ==
    /\ phase \notin {"Unmounted", "Inert"}
    /\ ~disabled /\ ~isOpen
    /\ isOpen' = TRUE
    /\ heightPending' = TRUE
    /\ Calls(<<>>)
    /\ UNCHANGED <<env, phase, disabled, allTags, selectedTags, languageCodename,
                   inputValue, initialCodenames, parentTagCodename, pendingInit,
                   inflight, subscribed, initCalls, fetchCalls, errors, seeded, pureVars>>

\* The input loses the focus or the user presses Escape.
CloseMenu ==
    /\ isOpen
    /\ isOpen' = FALSE
    /\ heightPending' = TRUE
    /\ Calls(<<>>)
    /\ UNCHANGED <<env, phase, disabled, allTags, selectedTags, languageCodename,
                   inputValue, initialCodenames, parentTagCodename, pendingInit,
                   inflight, subscribed, initCalls, fetchCalls, errors, seeded, pureVars>>

\* The user types: onInputValueChange, setInputValue; typing opens the menu.
InputChange(q) ==
    /\ phase \notin {"Unmounted", "Inert"}
    /\ ~disabled
    /\ q # inputValue
    /\ inputValue' = q
    /\ isOpen' = TRUE
    /\ heightPending' = TRUE
    /\ Calls(<<>>)
    /\ UNCHANGED <<env, phase, disabled, allTags, selectedTags, languageCodename,
                   initialCodenames, parentTagCodename, pendingInit, inflight,
                   subscribed, initCalls, fetchCalls, errors, seeded, pureVars>>

\* onStateChange that appends to the selection of the seeding instead of
\* the current one.
SelectItem_Stale ==
    /\ isOpen
    /\ LET flattenedTags == FlattenedTags(allTags, selectedTags, inputValue)
           stale == InitialTags(allTags, IF Truthy(env.value)
                                         THEN parseInitialValue(env.value)
                                         ELSE <<>>)
       IN  /\ flattenedTags.ok
           /\ \E i \in DOMAIN flattenedTags.out :
                 selectedTags' = stale \o <<flattenedTags.out[i].tag>>
    /\ inputValue' = <<>>
    /\ heightPending' = TRUE
    /\ Calls(<<SaveEffect(selectedTags')>>)
    /\ UNCHANGED <<env, phase, disabled, allTags, languageCodename,
                   initialCodenames, parentTagCodename, isOpen, pendingInit,
                   inflight, subscribed, initCalls, fetchCalls, errors, seeded,
                   pureVars>>

\* The user picks an item of the open menu (ItemClick or InputKeyDownEnter):
\* onStateChange of useCombobox, then the render and the save effect.
SelectItem ==
    /\ isOpen
    /\ LET flattenedTags == FlattenedTags(allTags, selectedTags, inputValue)
       IN  /\ flattenedTags.ok
           /\ \E i \in DOMAIN flattenedTags.out :
                 selectedTags' = selectedTags \o <<flattenedTags.out[i].tag>>
    /\ inputValue' = <<>>
    /\ heightPending' = TRUE
    /\ Calls(<<SaveEffect(selectedTags')>>)
    /\ UNCHANGED <<env, phase, disabled, allTags, languageCodename,
                   initialCodenames, parentTagCodename, isOpen, pendingInit,
                   inflight, subscribed, initCalls, fetchCalls, errors, seeded, pureVars>>

\* The remove button that drops the last selected tag, whichever was pressed.
RemoveItem_DropsLast(k) ==
    /\ ~disabled
    /\ k \in DOMAIN selectedTags
    /\ selectedTags' = SubSeq(selectedTags, 1, Len(selectedTags) - 1)
    /\ heightPending' = TRUE
    /\ Calls(<<SaveEffect(selectedTags')>>)
    /\ UNCHANGED <<env, phase, disabled, allTags, languageCodename, inputValue,
                   initialCodenames, parentTagCodename, isOpen, pendingInit,
                   inflight, subscribed, initCalls, fetchCalls, errors, seeded,
                   pureVars>>

\* The remove button without the save effect that follows it.
RemoveItem_NoSave(k) ==
    /\ ~disabled
    /\ k \in DOMAIN selectedTags
    /\ LET Other(item) == item # selectedTags[k]
       IN  selectedTags' = SelectSeq(selectedTags, Other)
    /\ heightPending' = TRUE
    /\ Calls(<<>>)
    /\ UNCHANGED <<env, phase, disabled, allTags, languageCodename, inputValue,
                   initialCodenames, parentTagCodename, isOpen, pendingInit,
                   inflight, subscribed, initCalls, fetchCalls, errors, seeded, pureVars>>

\* The user presses the remove button of selected tag k: removeSelectedItem
\* and setSelectedTags(selectedItems.filter(item => item !== tag)), then the
\* render and the save effect.
RemoveItem(k) ==
    /\ ~disabled
    /\ k \in DOMAIN selectedTags
    /\ LET Other(item) == item # selectedTags[k]
       IN  selectedTags' = SelectSeq(selectedTags, Other)
    /\ heightPending' = TRUE
    /\ Calls(<<SaveEffect(selectedTags')>>)
    /\ UNCHANGED <<env, phase, disabled, allTags, languageCodename, inputValue,
                   initialCodenames, parentTagCodename, isOpen, pendingInit,
                   inflight, subscribed, initCalls, fetchCalls, errors, seeded, pureVars>>

\* updateHeight without its test of window.CustomElement.
HeightTimer_NoGuard ==
    /\ heightPending
    /\ heightPending' = FALSE
    /\ LET flattenedTags == FlattenedTags(allTags, selectedTags, inputValue)
       IN  Calls(<<SetHeight(UpdateHeight(Len(selectedTags), isOpen,
                                          Len(flattenedTags.out)))>>)
    /\ UNCHANGED <<env, phase, reactVars, pendingInit, inflight, subscribed,
                   initCalls, fetchCalls, errors, seeded, pureVars>>

\* The timer of the height effect fires: updateHeight.
HeightTimer ==
    /\ heightPending
    /\ heightPending' = FALSE
    /\ LET flattenedTags == FlattenedTags(allTags, selectedTags, inputValue)
       IN  Calls(IF env.sdk
                 THEN <<SetHeight(UpdateHeight(Len(selectedTags), isOpen,
                                               Len(flattenedTags.out)))>>
                 ELSE <<>>)
    /\ UNCHANGED <<env, phase, reactVars, pendingInit, inflight, subscribed,
                   initCalls, fetchCalls, errors, seeded, pureVars>>

Next ==
    \/ Mount
    \/ InitCallback
    \/ FetchSettle
    \/ \E b \in BOOLEAN : DisabledChanged(b)
    \/ OpenMenu
    \/ CloseMenu
    \/ \E q \in Queries : InputChange(q)
    \/ SelectItem
    \/ \E k \in DOMAIN selectedTags : RemoveItem(k)
    \/ HeightTimer

Spec == Init /\ [][Next]_vars

\* ------------------------------------------------ src/app/src/App.tsx
\* createTagTree of App.tsx: the forEach over parentCodenames with the
\* addedToParent flag.
RECURSIVE LegacyAddToFirstParent(_, _, _, _, _)
LegacyAddToFirstParent(tagMap, c, parentCodenames, k, addedToParent) ==
    IF k > Len(parentCodenames) THEN [tagMap |-> tagMap, added |-> addedToParent]
    ELSE IF parentCodenames[k] \in DOMAIN tagMap /\ ~addedToParent
         THEN LET parent == parentCodenames[k]
                  m1 == [tagMap EXCEPT ![parent].children = Append(@, c)]
                  m2 == [m1 EXCEPT ![c].level = m1[parent].level + 1,
                                   ![c].isRoot = FALSE]
              IN  LegacyAddToFirstParent(m2, c, parentCodenames, k + 1, TRUE)
         ELSE LegacyAddToFirstParent(tagMap, c, parentCodenames, k + 1, addedToParent)

LegacyAttachTag(st, tag) ==
    IF Len(tag.parents) = 0
    THEN [st EXCEPT !.rootTags = Append(@, tag.codename)]
    ELSE LET r == LegacyAddToFirstParent(st.tagMap, tag.codename, tag.parents, 1, FALSE)
         IN  IF r.added THEN [st EXCEPT !.tagMap = r.tagMap]
             ELSE [st EXCEPT !.rootTags = Append(@, tag.codename)]

RECURSIVE LegacyBuildTree(_, _, _)
LegacyBuildTree(tags, i, st) ==
    IF i > Len(tags) THEN st
    ELSE LegacyBuildTree(tags, i + 1, LegacyAttachTag(st, tags[i]))

LegacyCreateTagTree(tags) ==
    LegacyBuildTree(tags, 1, [tagMap |-> InitNodes(tags), rootTags |-> <<>>])

\* flattenedTags of App.tsx: the available tags, not filtered by the input.
LegacyFlattenedTags(all, selected) ==
    flattenTree(LegacyCreateTagTree(AvailableTags(all, selected)))

\* The codenames the init callback of App.tsx reads from element.value: the
\* parsed array as it is, nothing for other JSON, [value] for other text.
LegacyInitialCodenames(value) ==
    LET r == JSONparse(value)
    IN  IF ~r.ok THEN <<JStr(value)>>
        ELSE IF r.val.t = "arr" THEN r.val.v ELSE <<>>

\* The save effect of App.tsx: setValue(JSON.stringify(selectedCodenames)).
LegacySaveEffect(selectedItems) ==
    SetValue(JSONstringify(StrArr(Codenames(selectedItems))))

\* fetchTags of App.tsx once the request has settled: what it passes to
\* setAllTags; set is FALSE when the catch is reached and nothing is set.
\* filter is the parentTagCodename of the render that created the closure.
LegacyFetchTags(response, filter) ==
    IF ~response.ok THEN [set |-> FALSE, tags |-> <<>>]
    ELSE IF Truthy(filter)
         THEN LET r == FilterByParent(response.items, filter)
              IN  IF r.ok THEN [set |-> TRUE, tags |-> r.out]
                  ELSE [set |-> FALSE, tags |-> <<>>]
         ELSE [set |-> TRUE, tags |-> response.items]

InitLegacy ==
    /\ \E s \in BOOLEAN, v \in SavedValues, d \in BOOLEAN, p \in ParentFilters,
          l \in Variants, u \in Universes :
         AppInit(Session(s, v, d, p, l, u), <<"en-us">>)
    /\ fn = "none" /\ arg = <<>> /\ res = <<>>

\* First render and the effects of the mount. The init effect hands the
\* host a callback whose fetchTags closes over this render's
\* parentTagCodename.
LegacyMount ==
    /\ phase = "Unmounted"
    /\ IF env.sdk
       THEN /\ phase' = "Uninitialized"
            /\ pendingInit' = Append(pendingInit, parentTagCodename)
            /\ initCalls' = initCalls + 1
            /\ subscribed' = subscribed + 1
            /\ Calls(<<LegacySaveEffect(selectedTags)>>)
            /\ UNCHANGED errors
       ELSE /\ phase' = "Inert"
            /\ errors' = errors + 1
            /\ Calls(<<>>)
            /\ UNCHANGED <<pendingInit, initCalls, subscribed>>
    /\ heightPending' = TRUE
    /\ UNCHANGED <<env, reactVars, inflight, fetchCalls, seeded, pureVars>>

\* The host delivers a callback given to init (one delivery for each call of
\* init). After the callback the render follows: the init effect runs again
\* when parentTagCodename or languageCodename changed, and calls init and
\* onDisabledChanged again; the reconcile effect runs on the new
\* initialCodenames.
LegacyInitCallback ==
    /\ pendingInit # <<>>
    /\ LET codenames == IF Truthy(env.value) THEN LegacyInitialCodenames(env.value)
                        ELSE initialCodenames
           runs == Truthy(env.value) /\ ReconcileRuns(allTags, codenames)
           parent == IF Truthy(env.parentTagCodename) THEN env.parentTagCodename
                     ELSE parentTagCodename
           lang == IF Truthy(env.variant) THEN env.variant ELSE languageCodename
           again == parent # parentTagCodename \/ lang # languageCodename
       IN  /\ initialCodenames' = IF runs THEN <<>> ELSE codenames
           /\ selectedTags' = IF runs THEN InitialTags(allTags, codenames)
                              ELSE selectedTags
           /\ parentTagCodename' = parent
           /\ languageCodename' = lang
           /\ pendingInit' = Tail(pendingInit) \o IF again THEN <<parent>> ELSE <<>>
           /\ initCalls' = initCalls + IF again THEN 1 ELSE 0
           /\ subscribed' = subscribed + IF again THEN 1 ELSE 0
           /\ Calls(<<SetHeight(180)>>
                    \o IF runs THEN <<LegacySaveEffect(selectedTags')>> ELSE <<>>)
           /\ heightPending' = (heightPending \/ runs)
           /\ seeded' = (seeded \/ runs)
    /\ disabled' = env.disabled
    /\ \E ok \in BOOLEAN :
         inflight' = Append(inflight, [filter |-> Head(pendingInit), ok |-> ok])
    /\ fetchCalls' = fetchCalls + 1
    /\ phase' = IF phase = "Ready" THEN "Ready" ELSE "Loading"
    /\ UNCHANGED <<env, allTags, inputValue, isOpen, errors, pureVars>>

\* Request n settles (requests may settle in any order).
LegacyFetchSettle(n) ==
    /\ n \in DOMAIN inflight
    /\ inflight' = SubSeq(inflight, 1, n - 1) \o SubSeq(inflight, n + 1, Len(inflight))
    /\ LET response == IF inflight[n].ok THEN Response(env.items) ELSE Rejected
           got == LegacyFetchTags(response, inflight[n].filter)
       IN  IF ~got.set
           THEN /\ errors' = errors + 1
                /\ Calls(<<>>)
                /\ UNCHANGED <<phase, allTags, selectedTags, initialCodenames,
                               heightPending, seeded>>
           ELSE LET runs == ReconcileRuns(got.tags, initialCodenames)
                IN  /\ phase' = "Ready"
                    /\ seeded' = (seeded \/ runs)
                    /\ allTags' = got.tags
                    /\ selectedTags' =
                          IF runs THEN InitialTags(got.tags, initialCodenames)
                          ELSE selectedTags
                    /\ initialCodenames' = IF runs THEN <<>> ELSE initialCodenames
                    /\ Calls(IF runs THEN <<LegacySaveEffect(selectedTags')>>
                             ELSE <<>>)
                    /\ heightPending' = TRUE
                    /\ UNCHANGED errors
    /\ UNCHANGED <<env, disabled, languageCodename, inputValue, parentTagCodename,
                   isOpen, pendingInit, subscribed, initCalls, fetchCalls, pureVars>>

\* The user picks an item of the open menu: setSelectedTags([...selectedItems,
\* newSelectedItem]), then the render and the save effect.
LegacySelectItem ==
    /\ isOpen
    /\ LET flattenedTags == LegacyFlattenedTags(allTags, selectedTags)
       IN  /\ flattenedTags.ok
           /\ \E i \in DOMAIN flattenedTags.out :
                 selectedTags' = selectedTags \o <<flattenedTags.out[i].tag>>
    /\ heightPending' = TRUE
    /\ Calls(<<LegacySaveEffect(selectedTags')>>)
    /\ UNCHANGED <<env, phase, disabled, allTags, languageCodename, inputValue,
                   initialCodenames, parentTagCodename, isOpen, pendingInit,
                   inflight, subscribed, initCalls, fetchCalls, errors, seeded, pureVars>>

\* The user presses the remove button of selected tag k.
LegacyRemoveItem(k) ==
    /\ ~disabled
    /\ k \in DOMAIN selectedTags
    /\ LET Other(item) == item # selectedTags[k]
       IN  selectedTags' = SelectSeq(selectedTags, Other)
    /\ heightPending' = TRUE
    /\ Calls(<<LegacySaveEffect(selectedTags')>>)
    /\ UNCHANGED <<env, phase, disabled, allTags, languageCodename, inputValue,
                   initialCodenames, parentTagCodename, isOpen, pendingInit,
                   inflight, subscribed, initCalls, fetchCalls, errors, seeded, pureVars>>

\* The timer of the height effect fires.
LegacyHeightTimer ==
    /\ heightPending
    /\ heightPending' = FALSE
    /\ LET flattenedTags == LegacyFlattenedTags(allTags, selectedTags)
       IN  Calls(IF env.sdk
                 THEN <<SetHeight(UpdateHeight(Len(selectedTags), isOpen,
                                               Len(flattenedTags.out)))>>
                 ELSE <<>>)
    /\ UNCHANGED <<env, phase, reactVars, pendingInit, inflight, subscribed,
                   initCalls, fetchCalls, errors, seeded, pureVars>>

NextLegacy ==
    \/ LegacyMount
    \/ LegacyInitCallback
    \/ \E n \in DOMAIN inflight : LegacyFetchSettle(n)
    \/ \E b \in BOOLEAN : DisabledChanged(b)
    \/ OpenMenu
    \/ CloseMenu
    \/ LegacySelectItem
    \/ \E k \in DOMAIN selectedTags : LegacyRemoveItem(k)
    \/ LegacyHeightTimer

SpecLegacy == InitLegacy /\ [][NextLegacy]_vars

\* ------------------------------------------- the pure functions on inputs
\* No session: the widget is never mounted while a function is exercised.
NoSession ==
    [sdk |-> FALSE, value |-> <<>>, disabled |-> TRUE, parentTagCodename |-> <<>>,
     variant |-> <<>>, items |-> <<>>]

\* The parent lists of the generated tags: a linked-items element names an
\* item at most once.
ParentLists ==
    {ps \in UNION {[1..n -> Names] : n \in 0..MaxParents} :
        \A i, j \in DOMAIN ps : ps[i] = ps[j] => i = j}

\* The orders in which some of the codenames can be listed, each at most once.
NameOrders ==
    {o \in UNION {[1..n -> Names] : n \in 0..Cardinality(Names)} :
        \A i, j \in DOMAIN o : o[i] = o[j] => i = j}

\* The tag list with the codenames of order o and the parent lists ps.
TagList(o, ps) == [i \in DOMAIN o |-> MkTag(o[i], o[i], <<>>, ps[i])]

\* arg is any tag list with unique codenames over Names, every tag with any
\* parent list: no parent, parents in the list, parents not in the list,
\* the tag itself, tags that name each other.
ArgIsTagList(Fits(_)) ==
    \E o \in NameOrders : \E ps \in [DOMAIN o -> ParentLists] :
        arg = Fits(TagList(o, ps))

Apply(f, y) ==
    /\ fn' = f
    /\ res' = y
    /\ UNCHANGED <<arg, appVars>>

\* createTagTree(tags), then flattenTree of its result.
InitTree ==
    /\ AppInit(NoSession, <<"default">>)
    /\ fn = "none" /\ res = <<>>
    /\ LET Tags(tags) == tags IN ArgIsTagList(Tags)

CallCreateTagTree == fn = "none" /\ Apply("createTagTree", createTagTree(arg))

\* createTagTree of src/app/src/App.tsx on the same tags.
CallLegacyCreateTagTree ==
    fn = "none" /\ Apply("createTagTree", LegacyCreateTagTree(arg))

CallFlattenTree == fn = "createTagTree" /\ Apply("flattenTree", flattenTree(res))

NextTree == CallCreateTagTree \/ CallLegacyCreateTagTree \/ CallFlattenTree

SpecTree == InitTree /\ [][NextTree]_vars

\* fetchTags(projectId, languageCode, parentFilter) on every response.
InitFetch ==
    /\ AppInit(NoSession, <<"default">>)
    /\ fn = "none" /\ res = <<>>
    /\ \E p \in Names \cup {<<>>} :
         \/ LET Fetched(tags) == [response |-> Response(tags), parentFilter |-> p]
            IN  ArgIsTagList(Fetched)
         \/ arg = [response |-> Rejected, parentFilter |-> p]

CallFetchTags ==
    fn = "none" /\ Apply("fetchTags", fetchTags(arg.response, arg.parentFilter))

CallFetchSpecificTags ==
    /\ fn = "none"
    /\ ~Truthy(arg.parentFilter)
    /\ Apply("fetchSpecificTags",
             fetchSpecificTags(arg.response, Codenames(arg.response.items)))

NextFetch == CallFetchTags \/ CallFetchSpecificTags

SpecFetch == InitFetch /\ [][NextFetch]_vars

\* JSON.stringify(formatTagsForSaving(selection)), then parseInitialValue
\* of the text.
TagVariants ==
    [name : {<<"N">>, <<QUOTE, BACKSLASH>>}, elname : {<<>>, <<"E", " ">>},
     parents : {SubSeq(NameSeq, 1, k) : k \in 0..MaxParents}]

InitSave ==
    /\ AppInit(NoSession, <<"default">>)
    /\ fn = "none" /\ res = <<>>
    /\ \E o \in {x \in NameOrders : Len(x) <= MaxSelection} :
         \E f \in [DOMAIN o -> TagVariants] :
            arg = [i \in DOMAIN o |->
                     MkTag(o[i], f[i].name, f[i].elname, f[i].parents)]

CallFormatTagsForSaving ==
    fn = "none" /\ Apply("formatTagsForSaving", formatTagsForSaving(arg))

CallStringify ==
    fn = "formatTagsForSaving" /\ Apply("JSON.stringify", JSONstringify(res))

CallParseInitialValue ==
    fn = "JSON.stringify" /\ Apply("parseInitialValue", parseInitialValue(res))

NextSave == CallFormatTagsForSaving \/ CallStringify \/ CallParseInitialValue

SpecSave == InitSave /\ [][NextSave]_vars

\* parseInitialValue(value) on raw saved values: short texts of any atoms,
\* and the JSON text of scalars, objects and short arrays.
RawAtoms == {"a", "true", "null", "1", "[", "]", "{", "}", QUOTE, ",", " "}

ShortTexts == UNION {[1..n -> RawAtoms] : n \in 0..MaxRawLen}

JsonElements ==
    {JNull, JNum(<<"1">>), JStr(A), JStr(<<>>), JArr(<<>>), JObj(<<>>),
     JObj(<<Prop(<<"codename">>, JStr(A))>>),
     JObj(<<Prop(<<"codename">>, JStr(<<>>))>>),
     JObj(<<Prop(<<"name">>, JStr(B))>>)}

JsonValues ==
    {JNull, JBool(TRUE), JNum(<<"1">>), JStr(A), JObj(<<>>),
     JObj(<<Prop(<<"codename">>, JStr(A))>>)}
        \cup {JArr(xs) : xs \in UNION {[1..n -> JsonElements] : n \in 0..MaxItems}}

InitParse ==
    /\ AppInit(NoSession, <<"default">>)
    /\ fn = "none" /\ res = <<>>
    /\ \/ arg \in ShortTexts
       \/ \E x \in JsonValues : arg = JSONstringify(x)

CallParseSavedValue ==
    fn = "none" /\ Apply("parseSavedValue", parseInitialValue(arg))

NextParse == CallParseSavedValue

SpecParse == InitParse /\ [][NextParse]_vars

\* determineTagPickerMode(config) and parseSpecificTagCodenames of its
\* specificTagCodenames, on every configuration.
ConfigTexts == UNION {[1..n -> {"a", "b", ",", " "}] : n \in 0..MaxRawLen}

InitMode ==
    /\ AppInit(NoSession, <<"default">>)
    /\ fn = "none" /\ res = <<>>
    /\ \/ arg = NoConfig
       \/ \E specific \in {JUndef} \cup {JStr(t) : t \in ConfigTexts} :
             \E parent \in {JUndef, JStr(<<>>), JStr(A)} :
                arg = Config(specific, parent)

CallDetermineTagPickerMode ==
    fn = "none" /\ Apply("determineTagPickerMode", determineTagPickerMode(arg))

CallParseSpecificTagCodenames ==
    /\ fn = "none"
    /\ Apply("parseSpecificTagCodenames",
             parseSpecificTagCodenames(
                 OptionalProp(arg, <<"specificTagCodenames">>)))

NextMode == CallDetermineTagPickerMode \/ CallParseSpecificTagCodenames

SpecMode == InitMode /\ [][NextMode]_vars

\* availableTags on every tag list and selection, then once more on its own
\* result. The selected tags are objects of their own: they share the
\* codename with a tag of the list, not the identity.
InitAvail ==
    /\ AppInit(NoSession, <<"default">>)
    /\ fn = "none" /\ res = <<>>
    /\ \E o \in UNION {[1..n -> Names] : n \in 0..Cardinality(Names)} :
         \E sel \in {x \in NameOrders : Len(x) <= MaxSelection} :
            arg = [tags |-> [i \in DOMAIN o |-> MkTag(o[i], o[i], <<>>, <<>>)],
                   selected |-> [i \in DOMAIN sel |->
                                    MkTag(sel[i], <<"N">>, <<>>, <<>>)]]

CallAvailableTags ==
    /\ fn = "none"
    /\ Apply("availableTags", AvailableTags(arg.tags, arg.selected))

CallAvailableTagsAgain ==
    /\ fn = "availableTags"
    /\ Apply("availableTags again", AvailableTags(res, arg.selected))

NextAvail == CallAvailableTags \/ CallAvailableTagsAgain

SpecAvail == InitAvail /\ [][NextAvail]_vars

\* ------------------------------------------------------------------ claims
\* How often tag x occurs among the tags of a flattened list.
Occurrences(x, nodes) == Cardinality({k \in DOMAIN nodes : nodes[k].tag = x})

\* C1: for every tag list T with unique codenames and any parent lists,
\* flattenTree(createTagTree(T)) holds every tag of T exactly once.
C1_FlattenHoldsEveryTagOnce ==
    fn = "flattenTree" =>
        /\ res.ok
        /\ \A i \in DOMAIN arg : Occurrences(arg[i], res.out) = 1

\* C3: parseInitialValue(JSON.stringify(formatTagsForSaving(S))) is the
\* sequence of the codenames of S, in the order of S.
C3_SaveRoundTrip ==
    fn = "parseInitialValue" =>
        /\ Len(res) = Len(arg)
        /\ \A i \in DOMAIN arg : res[i].t = "str" /\ res[i].v = arg[i].codename

\* Two tags saved and read back, the first with a name that needs escaping.
C3_Witness ==
    /\ fn = "parseInitialValue"
    /\ Len(arg) = 2
    /\ QUOTE \in Range(arg[1].name)
    /\ arg[2].parents # <<>>
    /\ Len(res) = 2

\* C6: the list fetchTags returns never holds a codename twice.
C6_FetchTagsNoDuplicates ==
    fn = "fetchTags" => UniqueCodenames(res.value)

\* The pre-order traversal of the subtree of p in createTagTree(tags).
SubtreeOf(tags, p) ==
    LET tree == createTagTree(tags)
        r == FlattenNode(tree, p, {})
    IN  [ok |-> r.ok, out |-> [k \in DOMAIN r.out |-> r.out[k].tag]]

\* C7: with parent filter p, fetchTags returns nothing when no fetched tag
\* has codename p, and otherwise the pre-order traversal of the subtree of p
\* in the forest of createTagTree (first resolvable parent wins).
C7_ParentFilterIsSubtree ==
    (fn = "fetchTags" /\ arg.response.ok /\ Truthy(arg.parentFilter)) =>
        IF arg.parentFilter \notin Range(Codenames(arg.response.items))
        THEN res.value = <<>>
        ELSE LET sub == SubtreeOf(arg.response.items, arg.parentFilter)
             IN  sub.ok => res.value = sub.out

\* A SavedTagInfo of the current format: codename, name, displayName and id
\* are strings, parentTags is an array of strings.
IsSavedTagInfo(x) ==
    /\ x.t = "obj"
    /\ [i \in DOMAIN x.v |-> x.v[i].k] =
          << <<"codename">>, <<"name">>, <<"displayName">>, <<"id">>, <<"parentTags">> >>
    /\ \A i \in 1..4 : x.v[i].val.t = "str"
    /\ x.v[5].val.t = "arr"
    /\ \A j \in DOMAIN x.v[5].val.v : x.v[5].val.v[j].t = "str"

IsCurrentFormat(text) ==
    LET r == JSONparse(text)
    IN  /\ r.ok
        /\ r.val.t = "arr"
        /\ \A i \in DOMAIN r.val.v : IsSavedTagInfo(r.val.v[i])

\* C2: every value passed to setValue is a JSON array of the current format
\* ("[]" for no selection), never null and never an array of bare codenames.
C2_SetValueCurrentFormat ==
    \A k \in DOMAIN calls :
        calls[k].fn = "setValue" => IsCurrentFormat(calls[k].text)

\* The positions of universe u whose codename is among the saved codenames.
SavedPositions(u, codenames) ==
    {i \in DOMAIN u :
        \E k \in DOMAIN codenames :
            codenames[k].t = "str" /\ codenames[k].v = u[i].codename}

\* The k-th smallest of a set of positions.
KthOf(positions, k) ==
    CHOOSE i \in positions : Cardinality({j \in positions : j <= i}) = k

\* C4: the step that reconciles the saved codenames with the loaded tags
\* sets the selection to the tags of the universe whose codename is saved,
\* in the order of the universe; saved codenames without a tag are dropped.
C4_ReconcileInUniverseOrder ==
    [][(initialCodenames # <<>> /\ initialCodenames' = <<>>) =>
        LET positions == SavedPositions(allTags', initialCodenames)
        IN  /\ Len(selectedTags') = Cardinality(positions)
            /\ \A k \in DOMAIN selectedTags' :
                   selectedTags'[k] = allTags'[KthOf(positions, k)]]_vars

\* Saved as [c, z, a]: z has no tag and is dropped, a comes before c as in
\* the universe.
C4_Witness ==
    /\ phase = "Ready"
    /\ env.value = JSONstringify(StrArr(<<C, Z, A>>))
    /\ initialCodenames = <<>>
    /\ Codenames(allTags) = <<A, B, C>>
    /\ Codenames(selectedTags) = <<A, C>>
    /\ calls = <<SaveEffect(selectedTags)>>

Serialized(selection) == JSONstringify(formatTagsForSaving(selection))

\* C5: every step that changes the selection calls setValue with the
\* serialization of the new selection, and after every step of the mounted
\* widget the host holds the serialization of the selection.
C5_SetValueOnEveryMutation ==
    [][/\ selectedTags' # selectedTags =>
            /\ calls' # <<>>
            /\ calls'[Len(calls')] = SetValue(Serialized(selectedTags'))
       /\ phase' \in {"Uninitialized", "Loading", "Ready"} =>
            hostValue' = Serialized(selectedTags')]_vars

\* Nothing was saved; the user added two tags and removed the first again.
C5_Witness ==
    /\ phase = "Ready"
    /\ env.value = <<>>
    /\ Codenames(allTags) = <<A, B, C>>
    /\ Codenames(selectedTags) = <<C>>
    /\ calls = <<SetValue(Serialized(selectedTags))>>
    /\ hostValue = Serialized(selectedTags)

\* C8: within a session init is called once and at most one request is made.
C8_OneInitOneFetch == initCalls <= 1 /\ fetchCalls <= 1

\* C9: when the request fails, fetchTags and fetchSpecificTags resolve with
\* the empty list, and the step that settles the request leaves Loading with
\* no tags.
C9_FailedFetchLeavesLoading ==
    [][(inflight # <<>> /\ inflight' # inflight /\ ~Head(inflight).ok) =>
        /\ ~fetchTags(Rejected, Head(inflight).filter).rejected
        /\ fetchTags(Rejected, Head(inflight).filter).value = <<>>
        /\ ~fetchSpecificTags(Rejected, <<A, B>>).rejected
        /\ fetchSpecificTags(Rejected, <<A, B>>).value = <<>>
        /\ phase = "Loading"
        /\ phase' = "Ready"
        /\ allTags' = <<>>
        /\ inflight' = <<>>]_vars

\* The API holds tags, no parent filter is configured, and the request failed.
C9_Witness ==
    /\ phase = "Ready"
    /\ env.items # <<>>
    /\ env.parentTagCodename = <<>>
    /\ allTags = <<>>
    /\ errors = 1
    /\ inflight = <<>>

\* C10: the selection never holds two tags with the same codename.
C10_SelectionHasNoDuplicates == UniqueCodenames(selectedTags)

\* The nodes that hold node c among their children in the constructed forest.
ParentsIn(tree, c) ==
    {p \in DOMAIN tree.tagMap : c \in Range(tree.tagMap[p].children)}

\* The ancestors of node c in the constructed forest.
RECURSIVE AncestorsIn(_, _, _)
AncestorsIn(tree, c, seen) ==
    LET ps == ParentsIn(tree, c) \ seen
    IN  ps \cup UNION {AncestorsIn(tree, p, seen \cup ps) : p \in ps}

\* The position of codename c in the tag list T.
IndexIn(tags, c) == CHOOSE i \in DOMAIN tags : tags[i].codename = c

FlatCodenames(out) == [k \in DOMAIN out |-> out[k].tag.codename]

\* C11: in flattenTree(createTagTree(T)) every node comes after all of its
\* ancestors in the constructed forest, and the children of one parent, and
\* the roots among themselves, come in the relative order they have in T.
C11_AncestorsFirstSiblingsInOrder ==
    fn = "flattenTree" =>
        LET tree == createTagTree(arg)
            flat == FlatCodenames(res.out)
        IN  /\ \A k \in DOMAIN flat :
                   \A p \in AncestorsIn(tree, flat[k], {}) :
                       \E j \in 1..(k - 1) : flat[j] = p
            /\ \A i, j \in DOMAIN flat :
                   (i < j /\ ParentsIn(tree, flat[i]) = ParentsIn(tree, flat[j]))
                       => IndexIn(arg, flat[i]) < IndexIn(arg, flat[j])

\* T lists a grandchild, then its parent, then the root: the flattened list
\* is root, parent, grandchild.
C11_Witness ==
    /\ fn = "flattenTree"
    /\ Codenames(arg) = <<C, B, A>>
    /\ arg[1].parents = <<B>> /\ arg[2].parents = <<A>> /\ arg[3].parents = <<>>
    /\ FlatCodenames(res.out) = <<A, B, C>>

\* No entry of the parent list of tag i is the codename of a tag of the list.
NoResolvableParent(tags, i) ==
    \A k \in DOMAIN tags[i].parents :
        tags[i].parents[k] \notin Range(Codenames(tags))

\* C12: createTagTree puts a tag in the root list, once and with isRoot true,
\* if and only if its parent list is empty or names no tag of the input.
C12_RootIffNoResolvableParent ==
    fn = "createTagTree" =>
        \A i \in DOMAIN arg :
            LET c == arg[i].codename
                inRoots == {k \in DOMAIN res.rootTags : res.rootTags[k] = c}
            IN  /\ (inRoots # {}) <=> NoResolvableParent(arg, i)
                /\ res.tagMap[c].isRoot <=> NoResolvableParent(arg, i)
                /\ Cardinality(inRoots) <= 1

\* One tag whose only parent is not in the input became a root, another
\* whose second parent is in the input did not.
C12_Witness ==
    /\ fn = "createTagTree"
    /\ \E i, j \in DOMAIN arg :
          /\ arg[i].parents # <<>> /\ NoResolvableParent(arg, i)
          /\ arg[i].codename \in Range(res.rootTags)
          /\ Len(arg[j].parents) = 2
          /\ arg[j].parents[1] \notin Range(Codenames(arg))
          /\ arg[j].parents[2] = arg[i].codename
          /\ ~res.tagMap[arg[j].codename].isRoot

\* C20: every node of createTagTree has level 0 when it is a root, and the
\* final level of the node that holds it among its children, plus one,
\* otherwise.
C20_LevelIsParentLevelPlusOne ==
    fn = "createTagTree" =>
        \A c \in DOMAIN res.tagMap :
            IF c \in Range(res.rootTags)
            THEN res.tagMap[c].level = 0
            ELSE \A p \in ParentsIn(res, c) :
                    res.tagMap[c].level = res.tagMap[p].level + 1

\* The atoms a codename is made of here: letters and the words that are
\* JSON literals as well.
IsBareCodename(text) ==
    /\ text # <<>>
    /\ \A k \in DOMAIN text : text[k] \in {"a", "true", "null"}

\* C13: for a saved value that is one bare codename c, parseInitialValue
\* yields the one-element sequence [c].
C13_BareCodenameYieldsItself ==
    (fn = "parseSavedValue" /\ IsBareCodename(arg)) => res = <<JStr(arg)>>

\* A decoded value that is none of the two recognized shapes: a scalar, an
\* object, or a non-empty array of nulls, numbers and objects without a
\* codename property.
IsUnrecognizedShape(x) ==
    \/ x.t \in {"null", "bool", "num", "str", "obj"}
    \/ /\ x.t = "arr"
       /\ x.v # <<>>
       /\ \A k \in DOMAIN x.v :
             \/ x.v[k].t \in {"null", "num"}
             \/ /\ x.v[k].t = "obj"
                /\ \A m \in DOMAIN x.v[k].v : x.v[k].v[m].k # <<"codename">>

\* C14: for a saved value that is valid JSON of an unrecognized shape,
\* parseInitialValue yields the empty sequence.
C14_ShapeMismatchYieldsEmpty ==
    (fn = "parseSavedValue" /\ JSONparse(arg).ok
        /\ IsUnrecognizedShape(JSONparse(arg).val)) => res = <<>>

\* C15: for a saved value that is not valid JSON, parseInitialValue yields
\* the one-element sequence of the raw value.
C15_DecodeFailureYieldsRaw ==
    (fn = "parseSavedValue" /\ ~JSONparse(arg).ok) => res = <<JStr(arg)>>

\* The text {a, which no JSON decoder accepts, came back as a codename.
C15_Witness ==
    /\ fn = "parseSavedValue"
    /\ arg = <<"{", "a">>
    /\ res = <<JStr(<<"{", "a">>)>>

\* C16: parseInitialValue of the empty string is the empty sequence.
C16_EmptyStringYieldsEmpty ==
    (fn = "parseSavedValue" /\ arg = <<>>) => res = <<>>

\* C17: determineTagPickerMode returns 'specific-tags' exactly when
\* parseSpecificTagCodenames of the configured specificTagCodenames is not
\* empty, otherwise 'parent-filtered' exactly when parentTagCodename is
\* configured, otherwise 'all-tags'.
C17_ModePriority ==
    fn = "determineTagPickerMode" =>
        res = IF parseSpecificTagCodenames(
                    OptionalProp(arg, <<"specificTagCodenames">>)) # <<>>
              THEN "specific-tags"
              ELSE IF JTruthy(OptionalProp(arg, <<"parentTagCodename">>))
              THEN "parent-filtered"
              ELSE "all-tags"

\* C18: without the host SDK the mounted widget is inert in every state: no
\* init call, no request, no setValue and no setHeight, no tags, no
\* selection, disabled, and the error reported once.
C18_InertWithoutSdk ==
    (~env.sdk /\ phase # "Unmounted") =>
        /\ phase = "Inert"
        /\ initCalls = 0 /\ pendingInit = <<>>
        /\ fetchCalls = 0 /\ inflight = <<>>
        /\ calls = <<>> /\ hostValue = env.value
        /\ allTags = <<>> /\ selectedTags = <<>>
        /\ disabled
        /\ errors = 1

\* No SDK in a session with a saved value and tags in the API; the widget
\* was mounted and the timer of the height effect has fired.
C18_Witness ==
    /\ ~env.sdk
    /\ phase = "Inert"
    /\ env.value # <<>> /\ env.items # <<>>
    /\ ~heightPending
    /\ errors = 1

\* The positions of the tags whose codename no selected tag has.
NotSelectedPositions(tags, selected) ==
    {i \in DOMAIN tags :
        \A k \in DOMAIN selected : selected[k].codename # tags[i].codename}

\* C19: excluding the selected tags keeps exactly the tags whose codename
\* is not in the selection, in their order, and excluding them once more
\* from the result gives the same list.
C19_ExcludeSelectedIdempotent ==
    fn \in {"availableTags", "availableTags again"} =>
        LET kept == NotSelectedPositions(arg.tags, arg.selected)
        IN  /\ Len(res) = Cardinality(kept)
            /\ \A k \in DOMAIN res : res[k] = arg.tags[KthOf(kept, k)]

\* The selected tag a was excluded from c, a, b, twice.
C19_Witness ==
    /\ fn = "availableTags again"
    /\ Codenames(arg.tags) = <<C, A, B>>
    /\ Codenames(arg.selected) = <<A>>
    /\ Codenames(res) = <<C, B>>

\* The first entry of the parent list of tag i, from the left, that is the
\* codename of a tag of the list.
FirstResolvable(tags, i) ==
    LET ps == tags[i].parents
        known == {k \in DOMAIN ps : ps[k] \in Range(Codenames(tags))}
    IN  ps[CHOOSE k \in known : \A m \in known : k <= m]

\* C21: createTagTree appends a tag with a resolvable parent to the children
\* of exactly one node, the first resolvable entry of its parent list, once,
\* and does not put it in the root list.
C21_AttachedToFirstResolvableOnly ==
    fn = "createTagTree" =>
        \A i \in DOMAIN arg :
            ~NoResolvableParent(arg, i) =>
                LET c == arg[i].codename
                    first == FirstResolvable(arg, i)
                    kids == res.tagMap[first].children
                IN  /\ ParentsIn(res, c) = {first}
                    /\ Cardinality({k \in DOMAIN kids : kids[k] = c}) = 1
                    /\ c \notin Range(res.rootTags)

\* A tag with two parents that are both in the input hangs under the first.
C21_Witness ==
    /\ fn = "createTagTree"
    /\ \E i \in DOMAIN arg :
          /\ Len(arg[i].parents) = 2
          /\ \A k \in 1..2 : arg[i].parents[k] \in Range(Codenames(arg))
          /\ arg[i].parents[1] # arg[i].codename
          /\ arg[i].parents[2] # arg[i].codename
          /\ ParentsIn(res, arg[i].codename) = {arg[i].parents[1]}

\* C22: for two tags that name each other as parent, createTagTree ends
\* and at most one of the two is a child of the other.
C22_MutualParentsNotMutualChildren ==
    fn = "createTagTree" =>
        \A i, j \in DOMAIN arg :
            (/\ i # j
             /\ arg[j].codename \in Range(arg[i].parents)
             /\ arg[i].codename \in Range(arg[j].parents))
                => ~(/\ arg[i].codename \in ParentsIn(res, arg[j].codename)
                     /\ arg[j].codename \in ParentsIn(res, arg[i].codename))

\* C27: flattenTree(createTagTree(T)) ends, and its output holds tags of T
\* only and no codename twice, self and cyclic parent references included.
C27_FlattenEndsWithoutDuplicates ==
    fn = "flattenTree" =>
        /\ res.ok
        /\ \A k \in DOMAIN res.out : res.out[k].tag \in Range(arg)
        /\ \A j, k \in DOMAIN res.out :
               res.out[j].tag.codename = res.out[k].tag.codename => j = k

\* Two tags that name each other and a third without parent were flattened
\* to the third alone.
C27_Witness ==
    /\ fn = "flattenTree"
    /\ Len(arg) = 3
    /\ \E i, j \in DOMAIN arg :
          /\ i # j
          /\ arg[i].parents = <<arg[j].codename>>
          /\ arg[j].parents = <<arg[i].codename>>
    /\ res.ok
    /\ Len(res.out) = 1

\* C23: once the reconcile effect has seeded the selection, no step of the
\* fetch layer (delivery of an init callback, settling of a request)
\* changes the selection again.
C23_FetchLayerLeavesSeededSelection ==
    [][(seeded /\ selectedTags' # selectedTags) =>
          (pendingInit' = pendingInit /\ inflight' = inflight)]_vars

\* The selection was seeded with a and c; the user has removed a.
C23_Witness ==
    /\ seeded
    /\ phase = "Ready"
    /\ Codenames(allTags) = <<A, B, C>>
    /\ Codenames(selectedTags) = <<C>>
    /\ pendingInit = <<>> /\ inflight = <<>>

\* The selection without every entry that is tag t.
WithoutTag(selection, t) ==
    LET Other(item) == item # t IN SelectSeq(selection, Other)

\* A step of the fetch layer: an init callback is delivered or handed to
\* the host, or a request is sent or settles.
FetchLayerStep == pendingInit' # pendingInit \/ inflight' # inflight

\* C24: after Ready every step that is not of the fetch layer applies at
\* most one mutation to the current selection: it leaves the selection, or
\* appends one tag that was not selected and keeps all others, or removes
\* one tag and keeps all others; a disabled notification leaves it.
C24_OneMutationAtATime ==
    [][(phase = "Ready" /\ ~FetchLayerStep) =>
          /\ \/ selectedTags' = selectedTags
             \/ /\ Len(selectedTags') = Len(selectedTags) + 1
                /\ SubSeq(selectedTags', 1, Len(selectedTags)) = selectedTags
                /\ selectedTags'[Len(selectedTags')].codename
                      \notin Range(Codenames(selectedTags))
             \/ \E k \in DOMAIN selectedTags :
                   selectedTags' = WithoutTag(selectedTags, selectedTags[k])
          /\ disabled' # disabled => selectedTags' = selectedTags]_vars

\* Nothing was saved; the host enabled a widget that started disabled, and
\* the user added c and then a.
C24_Witness ==
    /\ phase = "Ready"
    /\ env.value = <<>>
    /\ env.disabled /\ ~disabled
    /\ Codenames(allTags) = <<A, B, C>>
    /\ Codenames(selectedTags) = <<C, A>>

\* C25: setValue is not called while Uninitialized or Loading, nor while no
\* tags are loaded: the host still holds the value of the session then.
C25_NoSetValueBeforeTagsAreLoaded ==
    (phase \in {"Uninitialized", "Loading"}
        \/ (phase = "Ready" /\ allTags = <<>>)) =>
            /\ \A k \in DOMAIN calls : calls[k].fn # "setValue"
            /\ hostValue = env.value

\* The tags of the universe that are not selected and whose display name
\* matches the search text.
Offered(all, selected, input) ==
    {t \in Range(all) :
        /\ t.codename \notin Range(Codenames(selected))
        /\ \/ ~Truthy(Trim(input))
           \/ Includes(ToLowerCase(getDisplayName(t)), ToLowerCase(input))}

\* C26: in every state the dropdown list holds, each once, exactly the tags
\* of the universe that are not selected and match the search text.
C26_DropdownIsUnselectedMatching ==
    LET flat == FlattenedTags(allTags, selectedTags, inputValue)
        offered == Offered(allTags, selectedTags, inputValue)
    IN  /\ flat.ok
        /\ \A k \in DOMAIN flat.out : flat.out[k].tag \in offered
        /\ \A t \in offered : Occurrences(t, flat.out) = 1

\* C28: while disabled is true, a step that is not of the fetch layer
\* neither changes the selection nor the value the host holds.
C28_DisabledBlocksUserActions ==
    [][(disabled /\ ~FetchLayerStep) =>
          (selectedTags' = selectedTags /\ hostValue' = hostValue)]_vars

\* C29: every selected tag has the codename of a tag of the loaded universe.
C29_SelectionWithinUniverse ==
    \A k \in DOMAIN selectedTags :
        selectedTags[k].codename \in Range(Codenames(allTags))

\* Seeded with a and c (z, saved as well, has no tag), then b was added.
C29_Witness ==
    /\ seeded
    /\ env.value = JSONstringify(StrArr(<<C, Z, A>>))
    /\ Codenames(allTags) = <<A, B, C>>
    /\ Codenames(selectedTags) = <<A, C, B>>

\* C30: an add appends the chosen tag and keeps the others and their order,
\* so that removing it again restores the selection; a remove deletes the
\* tag of the pressed button and keeps the others and their order.
C30_AddAppendsRemoveDeletes ==
    [][/\ SelectItem =>
            \E t \in Range(allTags) :
                /\ selectedTags' = Append(selectedTags, t)
                /\ WithoutTag(selectedTags', t) = selectedTags
       /\ \A k \in DOMAIN selectedTags :
            RemoveItem(k) =>
                /\ selectedTags[k] \notin Range(selectedTags')
                /\ selectedTags' = WithoutTag(selectedTags, selectedTags[k])
                /\ \A t \in Range(selectedTags) :
                       t # selectedTags[k] => t \in Range(selectedTags')]_vars

\* Seeded with c and b; the user added a and removed c.
C30_Witness ==
    /\ phase = "Ready"
    /\ seeded
    /\ Codenames(allTags) = <<A, B, C>>
    /\ Codenames(selectedTags) = <<B, A>>
    /\ calls = <<SetValue(Serialized(selectedTags))>>

=============================================================================
